---- MODULE Spec2Model ----
(***************************************************************************)
(* Model of sslyze's connectivity testing (utils/server_connectivity.py):  *)
(* ServerConnectivityInfo.test_connectivity_to_server, the per-target      *)
(* probe, and ServersConnectivityTester, which runs one probe per target   *)
(* on a thread pool.                                                       *)
(***************************************************************************)
EXTENDS Integers, Sequences, FiniteSets, TLC

\* ------------------------------------------------------------------ bounds
\* Longest tentative_server_info_list given to ServersConnectivityTester.
MaxTargets == 2
\* Largest max_threads argument below the default (the worker-count model
\* also takes DEFAULT_MAX_THREADS and DEFAULT_MAX_THREADS + 1).
MaxThreadsArg == 2
\* Number of times the direct caller probes the same record.
MaxProbes == 2
\* Largest list length of the worker-count model (beside the lengths 10, 200).
MaxJobs == 52

\* --------------------------------------------------------------- constants
DEFAULT_MAX_THREADS == 50

None == "None"

TLSV1 == "TLSV1"
SSLV23 == "SSLV23"
SSLV3 == "SSLV3"
TLSV1_2 == "TLSV1_2"

\* Mutant of VERSIONS: the versions tried oldest first, negotiated last.
VERSIONS_Ascending == <<SSLV3, TLSV1, TLSV1_2, SSLV23>>

\* for ssl_version in [TLSV1, SSLV23, SSLV3, TLSV1_2]
VERSIONS == <<TLSV1, SSLV23, SSLV3, TLSV1_2>>

DEFAULT_CIPHERS == "DEFAULT"
ALL_CIPHERS == "ALL:COMPLEMENTOFALL"

CONNECTIVITY_ERROR_NAME_NOT_RESOLVED == <<"Could not resolve ", "{hostname}">>
CONNECTIVITY_ERROR_TIMEOUT == <<"Could not connect (timeout)">>
CONNECTIVITY_ERROR_REJECTED == <<"Connection rejected">>
CONNECTIVITY_ERROR_HANDSHAKE_ERROR == <<"Could not complete an SSL handshake">>

\* ------------------------------------------------------------- exceptions
\* An exception is its class and its args tuple; e[0] is args[1] in TLA+.
ExcTypes == {"socket.timeout", "socket.gaierror", "socket.error",
             "StartTLSError", "ProxyError", "ValueError"}
ExcArgs == {<<>>, <<"detail">>}
Exceptions == [type : ExcTypes, args : ExcArgs]
\* do_pre_handshake() not called yet, and do_pre_handshake() returned.
NoException == [type |-> "none", args |-> <<>>]
PreHandshakeOk == [type |-> "ok", args |-> <<>>]

\* The classes an exception of class t is an instance of (Python 2.7:
\* socket.timeout and socket.gaierror derive from socket.error).
Bases(t) ==
    CASE t = "socket.timeout" -> {"socket.timeout", "socket.error", "Exception"}
      [] t = "socket.gaierror" -> {"socket.gaierror", "socket.error", "Exception"}
      [] OTHER -> {t, "Exception"}

IsInstance(e, cls) == cls \in Bases(e.type)

\* What a call of test_connectivity_to_server ends with.
NoOutcome == [kind |-> "none", msg |-> <<>>]
Returned == [kind |-> "returned", msg |-> <<>>]
ServerConnectivityError(error_msg) == [kind |-> "ServerConnectivityError", msg |-> error_msg]
IndexError == [kind |-> "IndexError", msg |-> <<"tuple index out of range">>]

\* '{0}: {1}'.format(a, b)
Format2(a, b) == <<a, ": ", b>>

\* raise ServerConnectivityError(<an expression using e[0]>): e[0] on an
\* exception built without arguments raises IndexError inside the handler.
RaiseWithArg0(e, msg) == IF Len(e.args) = 0 THEN IndexError ELSE ServerConnectivityError(msg)

\* The except clauses around do_pre_handshake(), tried in source order.
PreHandshakeError(e) ==
    IF IsInstance(e, "socket.timeout") THEN ServerConnectivityError(CONNECTIVITY_ERROR_TIMEOUT)
    ELSE IF IsInstance(e, "socket.error") THEN ServerConnectivityError(CONNECTIVITY_ERROR_REJECTED)
    ELSE IF IsInstance(e, "StartTLSError") THEN RaiseWithArg0(e, <<e.args[1]>>)
    ELSE IF IsInstance(e, "ProxyError") THEN RaiseWithArg0(e, <<e.args[1]>>)
    ELSE RaiseWithArg0(e, Format2(e.type, e.args[1]))

\* ------------------------------------------------------------------ state
Ciphers == {"AES128-SHA", "RC4-MD5"}
\* connect() raised; connect() returned and get_current_cipher_name() raised;
\* or get_current_cipher_name() returned a name or None.
HandshakeResults == {"connect_raises", "cipher_raises"} \cup Ciphers \cup {None}

Recs == 1..MaxTargets
Ctx == 1..MaxTargets

VARIABLES
    info,               \* the ServerConnectivityInfo instances, by identity
    probe,              \* one activation record of test_connectivity_to_server per context
    calls,              \* calls made so far by the direct caller
    server_info_list,   \* ServersConnectivityTester._server_info_list
    max_threads,        \* argument of start_connectivity_testing
    pool,               \* the ThreadPool: job queue, workers, result and error queues
    tester,             \* the consumer: which call it is in, what the generators yielded
    sizing,             \* the worker-count model: counters only
    cmd                 \* one construction of a record: arguments, then the outcome

vars == <<info, probe, calls, server_info_list, max_threads, pool, tester, sizing, cmd>>

\* ServerConnectivityInfo.__init__: the negotiated fields start unset.
NewInfo(r) ==
    [hostname |-> r, ip_address |-> r, port |-> 443,
     ssl_version_supported |-> None, ssl_cipher_supported |-> None]

\* No construction under way.
IdleCmd == [pc |-> "unused"]

IdleProbe ==
    [pc |-> "idle", self |-> 0, i |-> 1,
     ssl_version_supported |-> None, ssl_cipher_supported |-> None,
     brk |-> FALSE, conns |-> {}, attempts |-> <<>>,
     pre |-> NoException, before |-> <<None, None>>, outcome |-> NoOutcome]

\* The records whose ip_address is a host name the caller forced, not an
\* address: the first record.
NamedAddresses == {1}

\* ssl_connection._sock.getpeername()[0] after do_pre_handshake(): the address
\* of the peer of a socket connected to ip_address, which is ip_address when
\* it is an address and the address the name resolved to when it is a name.
getpeername(ip_address) ==
    IF ip_address \in NamedAddresses THEN ip_address + MaxTargets ELSE ip_address

\* ------------------------------------------------------------- the probe
\* get_preconfigured_ssl_connection(override_ssl_version): the connection is
\* built from the record's own hostname, ip_address and port.
get_preconfigured_ssl_connection(r, name, override_ssl_version) ==
    [name |-> name, ip |-> info[r].ip_address, port |-> info[r].port,
     ssl_version |-> override_ssl_version]

Attempt(ssl_version, cipher_list, result) ==
    [ssl_version |-> ssl_version, cipher_list |-> cipher_list, result |-> result]

\* Entry of test_connectivity_to_server on record r, line 201: the first
\* connection is created with SSLV23.
Call(c, r) ==
    probe' = [probe EXCEPT ![c] =
        [IdleProbe EXCEPT
            !.pc = "pre_handshake", !.self = r,
            !.conns = {get_preconfigured_ssl_connection(r, "pre", SSLV23)},
            !.before = <<info[r].ssl_version_supported, info[r].ssl_cipher_supported>>]]

\* Mutant of PreHandshake: an exception of do_pre_handshake() is recorded and
\* the handshake attempts are made all the same.
PreHandshakeNotTerminal(c) ==
    /\ probe[c].pc = "pre_handshake"
    /\ \E e \in Exceptions \cup {PreHandshakeOk} :
         probe' = [probe EXCEPT ![c] =
            [@ EXCEPT !.pre = e, !.conns = {}, !.pc = "open_default", !.i = 1,
                      !.ssl_version_supported = None, !.ssl_cipher_supported = None]]
    /\ UNCHANGED <<info, calls, server_info_list, max_threads, pool, tester, sizing, cmd>>

\* Lines 204-230: do_pre_handshake() inside try/except/finally; the finally
\* clause closes the connection on every way out.
PreHandshake(c) ==
    /\ probe[c].pc = "pre_handshake"
    /\ \E e \in Exceptions \cup {PreHandshakeOk} :
         probe' = [probe EXCEPT ![c] =
            IF e = PreHandshakeOk
            THEN [@ EXCEPT !.pre = e, !.conns = {}, !.pc = "open_default", !.i = 1,
                           !.ssl_version_supported = None, !.ssl_cipher_supported = None]
            ELSE [@ EXCEPT !.pre = e, !.conns = {}, !.pc = "done",
                           !.outcome = PreHandshakeError(e)]]
    /\ UNCHANGED <<info, calls, server_info_list, max_threads, pool, tester, sizing, cmd>>

\* Line 233: the connection of the default-cipher attempt.
OpenDefault(c) ==
    /\ probe[c].pc = "open_default"
    /\ probe' = [probe EXCEPT ![c] =
          [@ EXCEPT !.pc = "connect_default",
                    !.conns = @ \cup {get_preconfigured_ssl_connection(
                                        probe[c].self, "default", VERSIONS[probe[c].i])}]]
    /\ UNCHANGED <<info, calls, server_info_list, max_threads, pool, tester, sizing, cmd>>

\* Mutant of TryHandshake: the break is missing, the search goes on after a
\* completed handshake.
TryHandshakeNoBreak(p, cipher_list, h, on_break, on_except) ==
    LET v == VERSIONS[p.i]
        logged == Append(p.attempts,
                     Attempt(v, cipher_list, IF h \in Ciphers \cup {None} THEN h ELSE "fail"))
    IN  CASE h = "connect_raises" ->
                [p EXCEPT !.attempts = logged, !.pc = on_except]
          [] h = "cipher_raises" ->
                [p EXCEPT !.attempts = logged, !.pc = on_except,
                          !.ssl_version_supported = v]
          [] OTHER ->
                [p EXCEPT !.attempts = logged, !.pc = on_except,
                          !.ssl_version_supported = v, !.ssl_cipher_supported = h]

\* One try body (lines 236-239 and 245-248): connect(), then the two local
\* assignments, then break. An exception from connect() leaves both locals;
\* one from get_current_cipher_name() leaves ssl_version_supported assigned.
TryHandshake(p, cipher_list, h, on_break, on_except) ==
    LET v == VERSIONS[p.i]
        logged == Append(p.attempts,
                     Attempt(v, cipher_list, IF h \in Ciphers \cup {None} THEN h ELSE "fail"))
    IN  CASE h = "connect_raises" ->
                [p EXCEPT !.attempts = logged, !.pc = on_except]
          [] h = "cipher_raises" ->
                [p EXCEPT !.attempts = logged, !.pc = on_except,
                          !.ssl_version_supported = v]
          [] OTHER ->
                [p EXCEPT !.attempts = logged, !.pc = on_break, !.brk = TRUE,
                          !.ssl_version_supported = v, !.ssl_cipher_supported = h]

\* Lines 234-240: the attempt with the default cipher list.
ConnectDefault(c) ==
    /\ probe[c].pc = "connect_default"
    /\ \E h \in HandshakeResults :
         probe' = [probe EXCEPT ![c] =
                     TryHandshake(@, DEFAULT_CIPHERS, h, "close_default", "open_all")]
    /\ UNCHANGED <<info, calls, server_info_list, max_threads, pool, tester, sizing, cmd>>

\* Lines 242-243: the second connection, with every cipher suite enabled.
OpenAllCiphers(c) ==
    /\ probe[c].pc = "open_all"
    /\ probe' = [probe EXCEPT ![c] =
          [@ EXCEPT !.pc = "connect_all",
                    !.conns = @ \cup {get_preconfigured_ssl_connection(
                                        probe[c].self, "all_ciphers", VERSIONS[probe[c].i])}]]
    /\ UNCHANGED <<info, calls, server_info_list, max_threads, pool, tester, sizing, cmd>>

\* Lines 244-251: the attempt with the exhaustive cipher list.
ConnectAllCiphers(c) ==
    /\ probe[c].pc = "connect_all"
    /\ \E h \in HandshakeResults :
         probe' = [probe EXCEPT ![c] =
                     TryHandshake(@, ALL_CIPHERS, h, "close_all", "close_all")]
    /\ UNCHANGED <<info, calls, server_info_list, max_threads, pool, tester, sizing, cmd>>

\* Mutant of CloseAllCiphers: the inner finally clause closes nothing.
CloseAllCiphersSkipped(c) ==
    /\ probe[c].pc = "close_all"
    /\ probe' = [probe EXCEPT ![c] = [@ EXCEPT !.pc = "close_default"]]
    /\ UNCHANGED <<info, calls, server_info_list, max_threads, pool, tester, sizing, cmd>>

\* Lines 252-253: finally: ssl_connection_all_ciphers.close().
CloseAllCiphers(c) ==
    /\ probe[c].pc = "close_all"
    /\ probe' = [probe EXCEPT ![c] =
          [@ EXCEPT !.pc = "close_default",
                    !.conns = {k \in @ : k.name # "all_ciphers"}]]
    /\ UNCHANGED <<info, calls, server_info_list, max_threads, pool, tester, sizing, cmd>>

\* Where the for loop goes after the outer finally: out on break or after
\* the last version, else to the next version.
AfterIteration(p) ==
    IF p.brk \/ p.i = Len(VERSIONS)
    THEN [p EXCEPT !.pc = "check"]
    ELSE [p EXCEPT !.pc = "open_default", !.i = p.i + 1]

\* Mutant of CloseDefault: the outer finally clause closes nothing.
CloseDefaultSkipped(c) ==
    /\ probe[c].pc = "close_default"
    /\ probe' = [probe EXCEPT ![c] = AfterIteration(@)]
    /\ UNCHANGED <<info, calls, server_info_list, max_threads, pool, tester, sizing, cmd>>

\* Lines 254-255: finally: ssl_connection.close(), then the loop goes on.
CloseDefault(c) ==
    /\ probe[c].pc = "close_default"
    /\ probe' = [probe EXCEPT ![c] =
          AfterIteration([@ EXCEPT !.conns = {k \in @ : k.name # "default"}])]
    /\ UNCHANGED <<info, calls, server_info_list, max_threads, pool, tester, sizing, cmd>>

\* Mutant of NothingNegotiated: "and" for "or".
NothingNegotiatedBoth(p) ==
    p.ssl_version_supported = None /\ p.ssl_cipher_supported = None

\* Mutant of NothingNegotiated: the cipher is not looked at.
NothingNegotiatedVersionOnly(p) == p.ssl_version_supported = None

\* Line 257: if ssl_version_supported is None or ssl_cipher_supported is None.
NothingNegotiated(p) ==
    p.ssl_version_supported = None \/ p.ssl_cipher_supported = None

\* Lines 257-258: the handshake error, or on to the two assignments.
Check(c) ==
    /\ probe[c].pc = "check"
    /\ probe' = [probe EXCEPT ![c] =
          IF NothingNegotiated(@)
          THEN [@ EXCEPT !.pc = "done",
                         !.outcome = ServerConnectivityError(CONNECTIVITY_ERROR_HANDSHAKE_ERROR)]
          ELSE [@ EXCEPT !.pc = "store_version"]]
    /\ UNCHANGED <<info, calls, server_info_list, max_threads, pool, tester, sizing, cmd>>

\* Mutant of StoreVersion: the version is written to every record.
StoreVersionEveryRecord(c) ==
    /\ probe[c].pc = "store_version"
    /\ info' = [r \in Recs |-> [info[r] EXCEPT !.ssl_version_supported =
                                                probe[c].ssl_version_supported]]
    /\ probe' = [probe EXCEPT ![c].pc = "store_cipher"]
    /\ UNCHANGED <<calls, server_info_list, max_threads, pool, tester, sizing, cmd>>

\* Line 260: self.ssl_version_supported = ssl_version_supported.
StoreVersion(c) ==
    /\ probe[c].pc = "store_version"
    /\ info' = [info EXCEPT ![probe[c].self].ssl_version_supported =
                                probe[c].ssl_version_supported]
    /\ probe' = [probe EXCEPT ![c].pc = "store_cipher"]
    /\ UNCHANGED <<calls, server_info_list, max_threads, pool, tester, sizing, cmd>>

\* Line 261: self.ssl_cipher_supported = ssl_cipher_supported, and return.
StoreCipher(c) ==
    /\ probe[c].pc = "store_cipher"
    /\ info' = [info EXCEPT ![probe[c].self].ssl_cipher_supported =
                                probe[c].ssl_cipher_supported]
    /\ probe' = [probe EXCEPT ![c].pc = "done", ![c].outcome = Returned]
    /\ UNCHANGED <<calls, server_info_list, max_threads, pool, tester, sizing, cmd>>

ProbeStep(c) ==
    \/ PreHandshake(c)
    \/ OpenDefault(c)
    \/ ConnectDefault(c)
    \/ OpenAllCiphers(c)
    \/ ConnectAllCiphers(c)
    \/ CloseAllCiphers(c)
    \/ CloseDefault(c)
    \/ Check(c)
    \/ StoreVersion(c)
    \/ StoreCipher(c)

\* ------------------------------------------------- one record, one caller
\* ThreadPool(): nothing queued, no worker started.
IdlePool == [job_q |-> <<>>, nb_threads |-> 0, idle |-> 0, exited |-> 0,
             result_q |-> <<>>, error_q |-> <<>>]
IdleTester == [pc |-> "unused", reachable |-> <<>>, invalid |-> <<>>,
               reachable_done |-> FALSE, invalid_done |-> FALSE]
IdleSizing == [pc |-> "unused", n |-> 0, max_threads |-> 0, nb_threads |-> 0,
               queued |-> 0, running |-> 0, finished |-> 0]

InitProbe ==
    /\ info = [r \in Recs |-> NewInfo(r)]
    /\ probe = [c \in Ctx |-> IdleProbe]
    /\ calls = 0
    /\ server_info_list = <<>>
    /\ max_threads = 0
    /\ pool = IdlePool
    /\ tester = IdleTester
    /\ sizing = IdleSizing
    /\ cmd = IdleCmd

\* The caller invokes test_connectivity_to_server on record 1, again once
\* the previous call has returned or raised.
CallDirect ==
    /\ probe[1].pc \in {"idle", "done"}
    /\ calls < MaxProbes
    /\ calls' = calls + 1
    /\ Call(1, 1)
    /\ UNCHANGED <<info, server_info_list, max_threads, pool, tester, sizing, cmd>>

NextProbe == CallDirect \/ ProbeStep(1)

SpecProbe == InitProbe /\ [][NextProbe]_vars

\* ------------------------------------------- ServersConnectivityTester
\* Mutants of NbThreads: one worker too few; no clamp at all; max for min.
NbThreadsOffByOne(n, m) == (IF n <= m THEN n ELSE m) - 1
NbThreadsUnclamped(n, m) == n
NbThreadsMax(n, m) == IF n <= m THEN m ELSE n

\* nb_threads = min(len(self._server_info_list), max_threads)
NbThreads(n, m) == IF n <= m THEN n ELSE m

\* Mutant of Jobs: the last list entry is never queued.
JobsSkipLast(list) == [k \in 1..(Len(list) - 1) |-> k]

\* for tentative_server_info in self._server_info_list: add_job(...): one job
\* per list entry, in list order; a job is named by its place in the list.
Jobs(list) == [k \in 1..Len(list) |-> k]

\* The lists of at most MaxTargets records, up to renaming of the records:
\* the first entry is record 1 and each later entry is a record already
\* listed or the next new one. The same instance may be listed twice.
CanonicalLists ==
    UNION {{l \in [1..n -> Recs] :
              \A k \in 1..n :
                 \/ l[k] = 1
                 \/ \E h \in 1..(k - 1) : l[h] >= l[k] - 1}
           : n \in 0..MaxTargets}

InitTester ==
    /\ info = [r \in Recs |-> NewInfo(r)]
    /\ probe = [c \in Ctx |-> IdleProbe]
    /\ calls = 0
    /\ server_info_list \in CanonicalLists
    /\ max_threads \in 1..MaxThreadsArg
    /\ pool = IdlePool
    /\ tester = [IdleTester EXCEPT !.pc = "constructed"]
    /\ sizing = IdleSizing
    /\ cmd = IdleCmd

\* start_connectivity_testing(max_threads): every target is queued, then
\* ThreadPool.start(nb_threads) starts the workers.
start_connectivity_testing ==
    /\ tester.pc = "constructed"
    /\ LET nb_threads == NbThreads(Len(server_info_list), max_threads)
       IN  pool' = [pool EXCEPT !.job_q = Jobs(server_info_list),
                                !.nb_threads = nb_threads, !.idle = nb_threads]
    /\ tester' = [tester EXCEPT !.pc = "started"]
    /\ UNCHANGED <<info, probe, calls, server_info_list, max_threads, sizing, cmd>>

\* A waiting worker takes the next job off the queue and calls its bound
\* method: test_connectivity_to_server of the job's record.
JobBegin(j) ==
    /\ pool.idle > 0
    /\ pool.job_q # <<>>
    /\ Head(pool.job_q) = j
    /\ pool' = [pool EXCEPT !.job_q = Tail(@), !.idle = @ - 1]
    /\ Call(j, server_info_list[j])
    /\ UNCHANGED <<info, calls, server_info_list, max_threads, tester, sizing, cmd>>

\* The job's call has returned or raised: its activation record is gone (what
\* is kept of it is which record it ran on and how it ended), the worker puts
\* (job, result) on the result queue or (job, exception) on the error queue,
\* and waits again.
JobEnd(j) ==
    /\ probe[j].pc = "done"
    /\ probe' = [probe EXCEPT ![j] = [IdleProbe EXCEPT !.pc = "retired",
                                                       !.self = probe[j].self,
                                                       !.outcome = probe[j].outcome]]
    /\ pool' = IF probe[j].outcome = Returned
               THEN [pool EXCEPT !.idle = @ + 1,
                                 !.result_q = Append(@, [job |-> j, exception |-> NoOutcome])]
               ELSE [pool EXCEPT !.idle = @ + 1,
                                 !.error_q = Append(@, [job |-> j, exception |-> probe[j].outcome])]
    /\ UNCHANGED <<info, calls, server_info_list, max_threads, tester, sizing, cmd>>

\* A waiting worker finds no job left and ends.
WorkerExit ==
    /\ tester.pc = "started"
    /\ pool.idle > 0
    /\ pool.job_q = <<>>
    /\ pool' = [pool EXCEPT !.idle = @ - 1, !.exited = @ + 1]
    /\ UNCHANGED <<info, probe, calls, server_info_list, max_threads, tester, sizing, cmd>>

\* Mutant of SelfOf: every job is reported as the first record of the list.
SelfOfFirst(job) == server_info_list[1]

\* test_connectivity_to_server_method.__self__: the record of the job.
SelfOf(job) == server_info_list[job]

\* get_reachable_servers: the next (job, _) of get_result() is yielded as
\* the job's record.
get_reachable_servers ==
    /\ tester.pc = "started"
    /\ ~tester.reachable_done
    /\ pool.result_q # <<>>
    /\ LET item == Head(pool.result_q)
       IN  tester' = [tester EXCEPT !.reachable =
                        Append(@, [job |-> item.job, server_info |-> SelfOf(item.job),
                                   exception |-> item.exception])]
    /\ pool' = [pool EXCEPT !.result_q = Tail(@)]
    /\ UNCHANGED <<info, probe, calls, server_info_list, max_threads, sizing, cmd>>

\* get_invalid_servers: the next (job, exception) of get_error() is yielded
\* as (record of the job, exception).
get_invalid_servers ==
    /\ tester.pc = "started"
    /\ ~tester.invalid_done
    /\ pool.error_q # <<>>
    /\ LET item == Head(pool.error_q)
       IN  tester' = [tester EXCEPT !.invalid =
                        Append(@, [job |-> item.job, server_info |-> SelfOf(item.job),
                                   exception |-> item.exception])]
    /\ pool' = [pool EXCEPT !.error_q = Tail(@)]
    /\ UNCHANGED <<info, probe, calls, server_info_list, max_threads, sizing, cmd>>

\* get_result() ends once every worker has ended and the queue is empty.
ReachableExhausted ==
    /\ tester.pc = "started"
    /\ ~tester.reachable_done
    /\ pool.exited = pool.nb_threads
    /\ pool.result_q = <<>>
    /\ tester' = [tester EXCEPT !.reachable_done = TRUE]
    /\ UNCHANGED <<info, probe, calls, server_info_list, max_threads, pool, sizing, cmd>>

\* get_error() ends once every worker has ended and the queue is empty.
InvalidExhausted ==
    /\ tester.pc = "started"
    /\ ~tester.invalid_done
    /\ pool.exited = pool.nb_threads
    /\ pool.error_q = <<>>
    /\ tester' = [tester EXCEPT !.invalid_done = TRUE]
    /\ UNCHANGED <<info, probe, calls, server_info_list, max_threads, pool, sizing, cmd>>

WorkerStep ==
    \/ \E j \in Ctx : JobBegin(j)
    \/ \E j \in Ctx : ProbeStep(j)
    \/ \E j \in Ctx : JobEnd(j)
    \/ WorkerExit

ConsumerStep ==
    \/ get_reachable_servers
    \/ get_invalid_servers
    \/ ReachableExhausted
    \/ InvalidExhausted

NextTester == start_connectivity_testing \/ WorkerStep \/ ConsumerStep

SpecTester == InitTester /\ [][NextTester]_vars

\* Every probe terminates and the threads are scheduled fairly: a worker
\* that can take a step takes one, and so does the consumer.
FairSpecTester ==
    /\ SpecTester
    /\ WF_vars(start_connectivity_testing)
    /\ WF_vars(WorkerStep)
    /\ WF_vars(ConsumerStep)

\* --------------------------------------------------- how many workers run
\* The same start_connectivity_testing with the jobs counted instead of
\* named, so that lists longer than DEFAULT_MAX_THREADS fit.
SizingLengths == (0..MaxJobs) \cup {10, 200}
SizingArgs == (1..MaxThreadsArg) \cup {DEFAULT_MAX_THREADS, DEFAULT_MAX_THREADS + 1}

InitSizing ==
    /\ info = [r \in Recs |-> NewInfo(r)]
    /\ probe = [c \in Ctx |-> IdleProbe]
    /\ calls = 0
    /\ server_info_list = <<>>
    /\ max_threads = 0
    /\ pool = IdlePool
    /\ tester = IdleTester
    /\ cmd = IdleCmd
    /\ \E n \in SizingLengths, m \in SizingArgs :
          sizing = [IdleSizing EXCEPT !.pc = "constructed", !.n = n, !.max_threads = m]

\* start_connectivity_testing: n jobs queued, nb_threads workers started.
SizingStart ==
    /\ sizing.pc = "constructed"
    /\ sizing' = [sizing EXCEPT !.pc = "started", !.queued = sizing.n,
                                 !.nb_threads = NbThreads(sizing.n, sizing.max_threads)]
    /\ UNCHANGED <<info, probe, calls, server_info_list, max_threads, pool, tester, cmd>>

\* A worker that runs no job takes one off the queue.
SizingJobBegin ==
    /\ sizing.pc = "started"
    /\ sizing.queued > 0
    /\ sizing.running < sizing.nb_threads
    /\ sizing' = [sizing EXCEPT !.queued = @ - 1, !.running = @ + 1]
    /\ UNCHANGED <<info, probe, calls, server_info_list, max_threads, pool, tester, cmd>>

\* A running probe returns or raises.
SizingJobEnd ==
    /\ sizing.pc = "started"
    /\ sizing.running > 0
    /\ sizing' = [sizing EXCEPT !.running = @ - 1, !.finished = @ + 1]
    /\ UNCHANGED <<info, probe, calls, server_info_list, max_threads, pool, tester, cmd>>

NextSizing == SizingStart \/ SizingJobBegin \/ SizingJobEnd

SpecSizing == InitSizing /\ [][NextSizing]_vars

\* ------------------------------------------- server strings and construction
\* A Python string is the sequence of its characters; an optional value is
\* <<>> (None) or <<v>>.
Some(v) == <<v>>
Nothing == <<>>

\* ch in s
Contains(s, ch) == \E k \in 1..Len(s) : s[k] = ch

\* Position of the first ch in s, only called when there is one.
Find(s, ch) == CHOOSE k \in 1..Len(s) : s[k] = ch /\ \A j \in 1..(k - 1) : s[j] # ch

\* s.split(ch), and s.rsplit(ch) (no maxsplit: the same pieces).
RECURSIVE Split(_, _)
Split(s, ch) ==
    IF ~Contains(s, ch) THEN <<s>>
    ELSE <<SubSeq(s, 1, Find(s, ch) - 1)>> \o Split(SubSeq(s, Find(s, ch) + 1, Len(s)), ch)

\* s.replace(ch, '')
Remove(s, ch) == SelectSeq(s, LAMBDA x : x # ch)

DecimalDigits == <<"0", "1", "2", "3", "4", "5", "6", "7", "8", "9">>
IsDigit(ch) == \E d \in 1..Len(DecimalDigits) : DecimalDigits[d] = ch
DigitValue(ch) == (CHOOSE d \in 1..Len(DecimalDigits) : DecimalDigits[d] = ch) - 1

\* int(s) accepts a string of decimal digits (of the characters used here, no
\* other string): leading zeros are dropped, '' and letters raise ValueError.
IsInt(s) == Len(s) > 0 /\ \A k \in 1..Len(s) : IsDigit(s[k])
RECURSIVE int(_)
int(s) == IF Len(s) = 0 THEN 0 ELSE 10 * int(SubSeq(s, 1, Len(s) - 1)) + DigitValue(s[Len(s)])

SERVER_STRING_ERROR_BAD_PORT == <<"Not a valid host:port">>
SERVER_STRING_ERROR_NO_IPV6 == <<"IPv6 is not supported on this platform">>

\* What a parser returns: the exception raised (NoOutcome when none) and the
\* values of the tuple.
Parsed(host, ip, port) == [exc |-> NoOutcome, host |-> host, ip |-> ip, port |-> port]
ParseRaised(e) == [exc |-> e, host |-> <<>>, ip |-> Nothing, port |-> Nothing]

\* try: port = int(text.split(':')[1]) / except: raise BAD_PORT, as a parse
\* result with the given host.
PortAfterColon(host, text) ==
    IF IsInt(Split(text, ":")[2])
    THEN Parsed(host, Nothing, Some(int(Split(text, ":")[2])))
    ELSE ParseRaised(ServerConnectivityError(SERVER_STRING_ERROR_BAD_PORT))

\* CommandLineServerStringParser._parse_ipv4_server_string
parse_ipv4_server_string(server_str) ==
    IF Contains(server_str, ":")
    THEN PortAfterColon(Split(server_str, ":")[1], server_str)
    ELSE Parsed(server_str, Nothing, Nothing)

\* CommandLineServerStringParser._parse_ipv6_server_string; has_ipv6 is
\* socket.has_ipv6.
parse_ipv6_server_string(server_str, has_ipv6) ==
    LET target_split == Split(server_str, "]")
    IN  IF ~has_ipv6 THEN ParseRaised(ServerConnectivityError(SERVER_STRING_ERROR_NO_IPV6))
        ELSE IF Len(Split(target_split[1], "[")) < 2 THEN ParseRaised(IndexError)
        ELSE IF Len(target_split) < 2 THEN ParseRaised(IndexError)
        ELSE IF Contains(target_split[2], ":")
             THEN PortAfterColon(Split(target_split[1], "[")[2], target_split[2])
        ELSE Parsed(Split(target_split[1], "[")[2], Nothing, Nothing)

\* The first lines of parse_server_string: the text between '{' and the next
\* '{' with every '}' removed is the forced address, the text before '{' is
\* the rest of the server string.
HasForcedIp(server_str) == Contains(server_str, "{") /\ Contains(server_str, "}")
ForcedIp(server_str) ==
    IF HasForcedIp(server_str) THEN Some(Remove(Split(server_str, "{")[2], "}")) ELSE Nothing
WithoutForcedIp(server_str) ==
    IF HasForcedIp(server_str) THEN Split(server_str, "{")[1] ELSE server_str

\* CommandLineServerStringParser.parse_server_string: returns host, ip, port.
parse_server_string(server_str, has_ipv6) ==
    LET ip == ForcedIp(server_str)
        rest == WithoutForcedIp(server_str)
    IN  IF Contains(rest, "[")
        THEN LET h == parse_ipv6_server_string(rest, has_ipv6)
             IN  IF h.exc # NoOutcome THEN h ELSE Parsed(h.host, ip, h.port)
        ELSE IF ip # Nothing /\ Contains(ip[1], "[")
        THEN LET a == parse_ipv6_server_string(ip[1], has_ipv6)
                 h == parse_ipv4_server_string(rest)
             IN  IF a.exc # NoOutcome THEN a
                 ELSE IF h.exc # NoOutcome THEN h
                 ELSE Parsed(h.host, Some(a.host), h.port)
        ELSE LET h == parse_ipv4_server_string(rest)
             IN  IF h.exc # NoOutcome THEN h ELSE Parsed(h.host, ip, h.port)

\* TlsWrappedProtocolEnum
PLAIN_TLS == "PLAIN_TLS"
HTTPS == "HTTPS"
STARTTLS_SMTP == "STARTTLS_SMTP"
STARTTLS_XMPP == "STARTTLS_XMPP"
STARTTLS_XMPP_SERVER == "STARTTLS_XMPP_SERVER"
STARTTLS_FTP == "STARTTLS_FTP"
STARTTLS_POP3 == "STARTTLS_POP3"
STARTTLS_LDAP == "STARTTLS_LDAP"
STARTTLS_IMAP == "STARTTLS_IMAP"
STARTTLS_RDP == "STARTTLS_RDP"
STARTTLS_POSTGRES == "STARTTLS_POSTGRES"

TLS_DEFAULT_PORTS ==
    (PLAIN_TLS :> 443) @@ (STARTTLS_SMTP :> 25) @@ (STARTTLS_XMPP :> 5222)
    @@ (STARTTLS_XMPP_SERVER :> 5269) @@ (STARTTLS_FTP :> 21) @@ (STARTTLS_POP3 :> 110)
    @@ (STARTTLS_LDAP :> 389) @@ (STARTTLS_IMAP :> 143) @@ (STARTTLS_RDP :> 3389)
    @@ (STARTTLS_POSTGRES :> 5432)

TLS_CONNECTION_CLASSES ==
    (PLAIN_TLS :> "SSLConnection") @@ (HTTPS :> "HTTPSConnection")
    @@ (STARTTLS_SMTP :> "SMTPConnection") @@ (STARTTLS_XMPP :> "XMPPConnection")
    @@ (STARTTLS_XMPP_SERVER :> "XMPPServerConnection") @@ (STARTTLS_POP3 :> "POP3Connection")
    @@ (STARTTLS_IMAP :> "IMAPConnection") @@ (STARTTLS_FTP :> "FTPConnection")
    @@ (STARTTLS_LDAP :> "LDAPConnection") @@ (STARTTLS_RDP :> "RDPConnection")
    @@ (STARTTLS_POSTGRES :> "PostgresConnection")

\* The values of TlsWrappedProtocolEnum the module uses.
ProtocolKinds == DOMAIN TLS_CONNECTION_CLASSES

\* Mutant of XmppProtocols: every protocol may carry an xmpp_to.
XmppProtocols_All == DOMAIN TLS_CONNECTION_CLASSES

\* [TlsWrappedProtocolEnum.STARTTLS_XMPP, TlsWrappedProtocolEnum.STARTTLS_XMPP_SERVER]
XmppProtocols == {STARTTLS_XMPP, STARTTLS_XMPP_SERVER}

KeyError(key) == [kind |-> "KeyError", msg |-> <<key>>]
XmppToError ==
    [kind |-> "ValueError", msg |-> <<"Can only specify xmpp_to for the XMPP StartTLS protocol.">>]

\* not port, for an optional integer; not s, for an optional string.
NotPort(port) == Len(port) = 0 \/ port[1] = 0
NotStr(s) == Len(s) = 0 \/ Len(s[1]) = 0

\* What socket.gethostbyname returns when the lookup succeeds.
DnsAnswer == <<"9", ".", "9">>

\* The instance __init__ leaves behind, and its absence when __init__ raised.
Instance(hostname, port, ip_address, kind, sni, xmpp_to) ==
    [hostname |-> hostname, port |-> port, ip_address |-> ip_address,
     tls_wrapped_protocol |-> kind, tls_server_name_indication |-> sni,
     xmpp_to_hostname |-> xmpp_to,
     ssl_version_supported |-> None, ssl_cipher_supported |-> None]
NoInstance == Instance(<<>>, 0, <<>>, None, <<>>, Nothing)

Constructed(self) == [exc |-> NoOutcome, self |-> self]
InitRaised(e) == [exc |-> e, self |-> NoInstance]

\* ServerConnectivityInfo.__init__, in statement order: the default port, the
\* name lookup, the default SNI, the xmpp_to check. resolves says whether
\* socket.gethostbyname(hostname) succeeds (it raises socket.gaierror if not).
ServerConnectivityInfo(hostname, port, ip_address, kind, xmpp_to, resolves) ==
    IF NotPort(port) /\ kind \notin DOMAIN TLS_DEFAULT_PORTS THEN InitRaised(KeyError(kind))
    ELSE IF NotStr(ip_address) /\ ~resolves
    THEN InitRaised(ServerConnectivityError(<<CONNECTIVITY_ERROR_NAME_NOT_RESOLVED[1], hostname>>))
    ELSE IF ~NotStr(xmpp_to) /\ kind \notin XmppProtocols THEN InitRaised(XmppToError)
    ELSE Constructed(Instance(hostname,
                              IF NotPort(port) THEN TLS_DEFAULT_PORTS[kind] ELSE port[1],
                              IF NotStr(ip_address) THEN DnsAnswer ELSE ip_address[1],
                              kind, hostname, xmpp_to))

\* The server strings given on the command line: a host, then optionally
\* ':' and a port text, then optionally a forced address in braces.
HostTexts == { <<"a">>, <<"a", ".", "b">>, <<"[", ":", ":", "1", "]">> }
PortTexts == { <<"0">>, <<"2", "5">>, <<"4", "4", "3">>, <<"0", "4", "4", "3">>, <<"x">>, <<>> }
ForcedIpTexts == { <<"1", ".", "2">>, <<"[", ":", ":", "2", "]">>, <<>> }
HostPortStrings == HostTexts \cup { h \o <<":">> \o p : h \in HostTexts, p \in PortTexts }
ServerStrings ==
    HostPortStrings \cup { s \o <<"{">> \o a \o <<"}">> : s \in HostPortStrings, a \in ForcedIpTexts }

\* The arguments of a direct call of the constructor.
PortArgs == { Nothing, Some(0), Some(443), Some(8443) }
IpArgs == { Nothing, Some(<<"1", ".", "2">>) }
XmppToArgs == { Nothing, Some(<<"x">>) }

CmdArgs(pc, server_string, hostname, port, ip_address, kind, xmpp_to, resolves, has_ipv6) ==
    [pc |-> pc, server_string |-> server_string, hostname |-> hostname, port |-> port,
     ip_address |-> ip_address, tls_wrapped_protocol |-> kind, xmpp_to_hostname |-> xmpp_to,
     resolves |-> resolves, has_ipv6 |-> has_ipv6,
     parsed |-> ParseRaised(NoOutcome), exc |-> NoOutcome, self |-> NoInstance]

InitCmd ==
    /\ info = [r \in Recs |-> NewInfo(r)]
    /\ probe = [c \in Ctx |-> IdleProbe]
    /\ calls = 0
    /\ server_info_list = <<>>
    /\ max_threads = 1
    /\ pool = IdlePool
    /\ tester = IdleTester
    /\ sizing = IdleSizing
    /\ \E kind \in ProtocolKinds, xmpp_to \in XmppToArgs, resolves \in BOOLEAN :
        \/ \E s \in ServerStrings, has_ipv6 \in BOOLEAN :
            cmd = CmdArgs("from_command_line", s, <<>>, Nothing, Nothing,
                          kind, xmpp_to, resolves, has_ipv6)
        \/ \E port \in PortArgs, ip \in IpArgs :
            cmd = CmdArgs("init", <<>>, <<"a">>, port, ip, kind, xmpp_to, resolves, TRUE)

\* The end of a construction, from either entry point.
Finish(c, made) ==
    [c EXCEPT !.pc = IF made.exc = NoOutcome THEN "constructed" ELSE "raised",
              !.exc = made.exc, !.self = made.self]

\* ServerConnectivityInfo(hostname, port, ip_address, ...), called directly.
Construct ==
    /\ cmd.pc = "init"
    /\ cmd' = Finish(cmd, ServerConnectivityInfo(cmd.hostname, cmd.port, cmd.ip_address,
                                                 cmd.tls_wrapped_protocol,
                                                 cmd.xmpp_to_hostname, cmd.resolves))
    /\ UNCHANGED <<info, probe, calls, server_info_list, max_threads, pool, tester, sizing>>

\* ServerConnectivityInfo.from_command_line: parse the server string, then
\* construct with what the parser returned.
from_command_line ==
    /\ cmd.pc = "from_command_line"
    /\ LET p == parse_server_string(cmd.server_string, cmd.has_ipv6)
       IN  IF p.exc # NoOutcome
           THEN cmd' = [Finish(cmd, InitRaised(p.exc)) EXCEPT !.parsed = p]
           ELSE cmd' = [Finish([cmd EXCEPT !.hostname = p.host, !.port = p.port,
                                           !.ip_address = p.ip],
                               ServerConnectivityInfo(p.host, p.port, p.ip,
                                                      cmd.tls_wrapped_protocol,
                                                      cmd.xmpp_to_hostname, cmd.resolves))
                        EXCEPT !.parsed = p]
    /\ UNCHANGED <<info, probe, calls, server_info_list, max_threads, pool, tester, sizing>>

NextCmd == Construct \/ from_command_line

SpecCmdLine == InitCmd /\ [][NextCmd]_vars

\* ================================================================ claims
\* The (version, cipher list) pairs of the attempts a probe has made.
AttemptPairs(p) ==
    [k \in 1..Len(p.attempts) |-> <<p.attempts[k].ssl_version, p.attempts[k].cipher_list>>]

\* Every attempt made so far raised.
AllFailed(p) == \A k \in 1..Len(p.attempts) : p.attempts[k].result = "fail"

IsPrefix(s, t) == Len(s) <= Len(t) /\ \A k \in 1..Len(s) : s[k] = t[k]

EightAttempts ==
    << <<"TLSV1", "DEFAULT">>,   <<"TLSV1", "ALL:COMPLEMENTOFALL">>,
       <<"SSLV23", "DEFAULT">>,  <<"SSLV23", "ALL:COMPLEMENTOFALL">>,
       <<"SSLV3", "DEFAULT">>,   <<"SSLV3", "ALL:COMPLEMENTOFALL">>,
       <<"TLSV1_2", "DEFAULT">>, <<"TLSV1_2", "ALL:COMPLEMENTOFALL">> >>

\* The probe has left the for loop (or the whole call).
SearchOver(p) == p.pc \in {"check", "done"}

\* C1: when the reachability check succeeded and every handshake attempt
\* fails, the attempts made are, in order, TLSV1, SSLV23, SSLV3, TLSV1_2, each
\* with the default and then the exhaustive cipher list: at every moment a
\* prefix of these eight, and exactly these eight once the search is over.
C1_AttemptOrder ==
    \A c \in Ctx :
        (probe[c].pre = PreHandshakeOk /\ AllFailed(probe[c]))
        => /\ IsPrefix(AttemptPairs(probe[c]), EightAttempts)
           /\ SearchOver(probe[c]) => AttemptPairs(probe[c]) = EightAttempts

C1_Witness ==
    /\ probe[1].pc = "done"
    /\ probe[1].pre = PreHandshakeOk
    /\ AllFailed(probe[1])
    /\ Len(probe[1].attempts) = 8

\* The attempt completed: connect() returned and the connection reported a
\* cipher (a name, or None).
Completed(a) == a.result # "fail"

\* C2: the first handshake attempt that succeeds ends the search: only the
\* last attempt made can be a completed one, whatever its position, and
\* when the call is over and that attempt's connection reported a cipher
\* name, the call returned and the record holds that attempt's version and
\* that cipher name.
C2_FirstSuccessWins ==
    \A c \in Ctx :
        LET p == probe[c]
            n == Len(p.attempts)
        IN  /\ \A k \in 1..(n - 1) : ~Completed(p.attempts[k])
            /\ (p.pc = "done" /\ n > 0 /\ p.attempts[n].result \in Ciphers)
               => /\ p.outcome = Returned
                  /\ info[p.self].ssl_version_supported = p.attempts[n].ssl_version
                  /\ info[p.self].ssl_cipher_supported = p.attempts[n].result

C2_Witness ==
    /\ probe[1].pc = "done"
    /\ Len(probe[1].attempts) = 3
    /\ probe[1].attempts[3].result \in Ciphers
    /\ info[1].ssl_version_supported = "SSLV23"
    /\ info[1].ssl_cipher_supported = probe[1].attempts[3].result

\* C3: when the reachability check succeeded and every handshake attempt
\* raised, the call ends with ServerConnectivityError('Could not complete an
\* SSL handshake') and the record's two negotiated fields are as they were
\* when the call began.
C3_HandshakeError ==
    \A c \in Ctx :
        LET p == probe[c]
        IN  (p.pc = "done" /\ p.pre = PreHandshakeOk /\ AllFailed(p))
            => /\ p.outcome =
                    [kind |-> "ServerConnectivityError",
                     msg |-> <<"Could not complete an SSL handshake">>]
               /\ <<info[p.self].ssl_version_supported,
                     info[p.self].ssl_cipher_supported>> = p.before

\* A second probe of a record that a first probe filled, every attempt failing.
C3_Witness ==
    /\ probe[1].pc = "done"
    /\ probe[1].pre = PreHandshakeOk
    /\ AllFailed(probe[1])
    /\ Len(probe[1].attempts) = 8
    /\ probe[1].before[1] # None
    /\ probe[1].outcome.kind = "ServerConnectivityError"

\* C4 as claimed: in every reachable state, also between two statements of
\* a probe, the two negotiated fields are both unset or both set.
C4_BothOrNeitherAlways ==
    \A r \in Recs :
        (info[r].ssl_version_supported = None) <=> (info[r].ssl_cipher_supported = None)

\* A probe of record r stands between line 260 and line 261.
BetweenStores(r) == \E c \in Ctx : probe[c].self = r /\ probe[c].pc = "store_cipher"

\* C4 as amended: the two negotiated fields are both unset or both set in
\* every state in which no probe of the record stands between its two
\* final assignments.
C4_BothOrNeither ==
    \A r \in Recs :
        ~BetweenStores(r)
        => ((info[r].ssl_version_supported = None) <=> (info[r].ssl_cipher_supported = None))

C4_Witness ==
    /\ calls = 2
    /\ probe[1].pc = "done"
    /\ probe[1].outcome = Returned
    /\ probe[1].before[1] # None
    /\ info[1].ssl_version_supported # None
    /\ info[1].ssl_cipher_supported # None

\* C9: a reachability failure is reported under its own kind: a timeout as
\* 'Could not connect (timeout)', a DNS failure as the name-resolution
\* error, a refusal as 'Connection rejected', and the DNS failure's report
\* differs from the refusal's.
C9_OwnErrorKind ==
    \A c \in Ctx :
        LET p == probe[c]
        IN  p.pc = "done"
            => /\ p.pre.type = "socket.timeout"
                  => p.outcome = ServerConnectivityError(<<"Could not connect (timeout)">>)
               /\ p.pre.type = "socket.error"
                  => p.outcome = ServerConnectivityError(<<"Connection rejected">>)
               /\ p.pre.type = "socket.gaierror"
                  => /\ p.outcome = ServerConnectivityError(CONNECTIVITY_ERROR_NAME_NOT_RESOLVED)
                     /\ p.outcome # ServerConnectivityError(<<"Connection rejected">>)

\* C10: an exception of do_pre_handshake() that is none of timeout, socket
\* error, StartTLS error, proxy error ends the call with a
\* ServerConnectivityError whose message carries the exception's type name
\* and its message; no other exception leaves the call.
C10_OtherErrorsWrapped ==
    \A c \in Ctx :
        LET p == probe[c]
        IN  (p.pc = "done" /\ p.pre.type = "ValueError")
            => /\ p.outcome.kind = "ServerConnectivityError"
               /\ Len(p.outcome.msg) = 3
               /\ p.outcome.msg[1] = "ValueError"
               /\ Len(p.pre.args) > 0 => p.outcome.msg[3] = p.pre.args[1]

\* -------------------------------------------------------- tester claims
Count(seq, j) == Cardinality({k \in 1..Len(seq) : seq[k].job = j})
CountRec(seq, r) == Cardinality({k \in 1..Len(seq) : seq[k].server_info = r})
Occurrences(list, r) == Cardinality({k \in 1..Len(list) : list[k] = r})

Drained == tester.reachable_done /\ tester.invalid_done

\* C5: once start_connectivity_testing has run and both generators are
\* exhausted, every entry of the input list has been yielded exactly once,
\* by exactly one of the two; the yields count N; every record has been
\* yielded as often as it is listed.
C5_Partition ==
    Drained
    => /\ Len(tester.reachable) + Len(tester.invalid) = Len(server_info_list)
       /\ \A j \in 1..Len(server_info_list) :
             /\ Count(tester.reachable, j) + Count(tester.invalid, j) = 1
             /\ ~(Count(tester.reachable, j) > 0 /\ Count(tester.invalid, j) > 0)
       /\ \A r \in Recs :
             CountRec(tester.reachable, r) + CountRec(tester.invalid, r)
                = Occurrences(server_info_list, r)

C5_Witness ==
    /\ Drained
    /\ server_info_list = <<1, 2>>
    /\ Len(tester.reachable) = 1
    /\ Len(tester.invalid) = 1
    /\ tester.invalid[1].server_info = 1

Appeared(j) ==
    \/ \E k \in 1..Len(pool.result_q) : pool.result_q[k].job = j
    \/ \E k \in 1..Len(pool.error_q) : pool.error_q[k].job = j
    \/ Count(tester.reachable, j) > 0
    \/ Count(tester.invalid, j) > 0

Submitted(j) == tester.pc = "started" /\ j \in 1..Len(server_info_list)

\* C6: with probes that terminate and fair scheduling, every job that
\* start_connectivity_testing submitted eventually appears in the result
\* stream or in the error stream.
C6_EveryJobAppears == \A j \in Ctx : [](Submitted(j) => <>Appeared(j))

C6_Witness ==
    /\ Len(server_info_list) = 2
    /\ Appeared(1)
    /\ Appeared(2)
    /\ pool.error_q # <<>>
    /\ pool.result_q # <<>>

Min(a, b) == IF a < b THEN a ELSE b

\* C7: start_connectivity_testing starts min(N, M) workers, and at every
\* moment at most min(N, M) probes run: at most 50 of 200 jobs with M = 50,
\* at most 10 of 10 jobs with M = 50.
C7_ConcurrencyBound ==
    sizing.pc = "started"
    => /\ sizing.nb_threads = Min(sizing.n, sizing.max_threads)
       /\ sizing.running <= Min(sizing.n, sizing.max_threads)
       /\ (sizing.n = 200 /\ sizing.max_threads = 50) => sizing.running <= 50
       /\ (sizing.n = 10 /\ sizing.max_threads = 50) => sizing.running <= 10

C7_Witness ==
    /\ sizing.n = 200
    /\ sizing.max_threads = 50
    /\ sizing.running = 50
    /\ sizing.queued > 0

\* C8 as claimed: the number of workers started never exceeds 50, whatever
\* the number of targets and the max_threads argument.
C8_NeverAboveFifty == sizing.nb_threads <= 50

\* C8 as amended: the number of workers started never exceeds the
\* max_threads argument, so never 50 when the caller passes at most 50 (the
\* default), whatever the number of targets.
C8_NeverAboveMaxThreads ==
    sizing.pc = "started"
    => /\ sizing.nb_threads <= sizing.max_threads
       /\ sizing.max_threads <= 50 => sizing.nb_threads <= 50

C8_Witness ==
    /\ sizing.pc = "started"
    /\ sizing.n = 200
    /\ sizing.max_threads = 50
    /\ sizing.nb_threads = 50

\* C13: every item get_invalid_servers yields pairs the record the job was
\* queued for, which is the record its probe ran on, with the exception that
\* probe raised; every item get_reachable_servers yields is the record of a
\* job whose own probe returned, and when it is yielded (and from then on)
\* both negotiated fields of that record are set.
C13_YieldsOwnRecord ==
    /\ \A k \in 1..Len(tester.invalid) :
        LET item == tester.invalid[k]
        IN  /\ item.server_info = server_info_list[item.job]
            /\ probe[item.job].pc = "retired"
            /\ probe[item.job].self = item.server_info
            /\ probe[item.job].outcome = item.exception
            /\ item.exception.kind \notin {"returned", "none"}
    /\ \A k \in 1..Len(tester.reachable) :
        LET item == tester.reachable[k]
        IN  /\ item.server_info = server_info_list[item.job]
            /\ probe[item.job].pc = "retired"
            /\ probe[item.job].self = item.server_info
            /\ probe[item.job].outcome = Returned
            /\ info[item.server_info].ssl_version_supported # None
            /\ info[item.server_info].ssl_cipher_supported # None

\* Two different records were probed; the second job's record was yielded
\* as reachable and the first job's as invalid.
C13_Witness ==
    /\ Len(tester.reachable) = 1 /\ Len(tester.invalid) = 1
    /\ tester.reachable[1].job = 2 /\ tester.reachable[1].server_info = 2
    /\ tester.invalid[1].job = 1 /\ tester.invalid[1].server_info = 1
    /\ tester.invalid[1].exception = ServerConnectivityError(CONNECTIVITY_ERROR_HANDSHAKE_ERROR)

\* -------------------------------------------------- construction claims
\* __init__ ran to its end or to a raise: the construction is over and, when
\* it started from a server string, the parser returned.
InitCalled(c) == c.pc \in {"constructed", "raised"} /\ c.parsed.exc = NoOutcome

\* An xmpp_to_hostname is given and the protocol is not one of the two XMPP
\* StartTLS kinds.
XmppToMisused(c) ==
    /\ c.xmpp_to_hostname # Nothing
    /\ c.tls_wrapped_protocol \notin {"STARTTLS_XMPP", "STARTTLS_XMPP_SERVER"}

NameNotResolved(hostname) ==
    [kind |-> "ServerConnectivityError", msg |-> <<"Could not resolve ", hostname>>]

\* C11 as stated: with an xmpp_to and a non-XMPP protocol the constructor
\* fails with the xmpp_to ValueError whatever the other arguments are.
C11_AlwaysInvalidConfiguration ==
    (InitCalled(cmd) /\ XmppToMisused(cmd)) => cmd.exc = XmppToError

\* C11: with an xmpp_to and a non-XMPP protocol the constructor never returns
\* an instance, and the error is that of the first failing statement: KeyError
\* when no port is given (None or 0) for HTTPS, else the name-resolution
\* error when no address is given and the hostname does not resolve, else the
\* xmpp_to ValueError.
C11_XmppToRejected ==
    (InitCalled(cmd) /\ XmppToMisused(cmd))
    => /\ cmd.pc = "raised"
       /\ cmd.exc =
            IF (cmd.port = Nothing \/ cmd.port = Some(0)) /\ cmd.tls_wrapped_protocol = "HTTPS"
            THEN [kind |-> "KeyError", msg |-> <<"HTTPS">>]
            ELSE IF (cmd.ip_address = Nothing \/ cmd.ip_address = Some(<<>>)) /\ ~cmd.resolves
            THEN NameNotResolved(cmd.hostname)
            ELSE XmppToError

\* The check is reached although the hostname does not resolve, because an
\* address was forced, and it raises for a protocol with a default port.
C11_Witness ==
    /\ InitCalled(cmd) /\ XmppToMisused(cmd)
    /\ cmd.port = Nothing /\ cmd.ip_address # Nothing /\ ~cmd.resolves
    /\ cmd.tls_wrapped_protocol = "STARTTLS_SMTP"
    /\ cmd.exc = XmppToError

\* The default-port table of the specification.
DefaultPortTable ==
    ("PLAIN_TLS" :> 443) @@ ("HTTPS" :> 443) @@ ("STARTTLS_SMTP" :> 25)
    @@ ("STARTTLS_XMPP" :> 5222) @@ ("STARTTLS_XMPP_SERVER" :> 5269)
    @@ ("STARTTLS_FTP" :> 21) @@ ("STARTTLS_POP3" :> 110) @@ ("STARTTLS_LDAP" :> 389)
    @@ ("STARTTLS_IMAP" :> 143) @@ ("STARTTLS_RDP" :> 3389) @@ ("STARTTLS_POSTGRES" :> 5432)

\* C12: for every protocol kind, constructing with no port (and nothing else
\* to fail: an address given or a hostname that resolves, no xmpp_to) returns
\* an instance whose port is the table's default for that kind, and the kind
\* has a connection class.
C12_MappingTotal ==
    (/\ InitCalled(cmd)
     /\ cmd.port = Nothing
     /\ cmd.xmpp_to_hostname = Nothing
     /\ (cmd.ip_address \notin {Nothing, Some(<<>>)} \/ cmd.resolves))
    => /\ cmd.pc = "constructed"
       /\ cmd.self.port = DefaultPortTable[cmd.tls_wrapped_protocol]
       /\ cmd.tls_wrapped_protocol \in DOMAIN TLS_CONNECTION_CLASSES

\* C14: a server string host:port with a decimal port constructs a record
\* with exactly that host and that port value, and a string with the host
\* alone constructs a record with the protocol's default port.
C14_RoundTrip ==
    \A h \in {<<"a">>, <<"a", ".", "b">>} :
        /\ \A p \in {<<"0">>, <<"2", "5">>, <<"4", "4", "3">>, <<"0", "4", "4", "3">>} :
            (cmd.pc = "constructed" /\ cmd.server_string = h \o <<":">> \o p)
            => cmd.self.hostname = h /\ cmd.self.port = int(p)
        /\ (cmd.pc = "constructed" /\ cmd.server_string = h)
            => cmd.self.hostname = h /\ cmd.self.port = DefaultPortTable[cmd.tls_wrapped_protocol]

\* ------------------------------------------------- connection claims
\* C15: when test_connectivity_to_server is over, by return or by raise,
\* no connection it created is left open.
C15_AllClosedAtExit ==
    \A c \in Ctx : probe[c].pc \in {"done", "retired"} => probe[c].conns = {}

\* Both connections of the first version were opened and the call returned.
C15_Witness ==
    /\ probe[1].pc = "done" /\ probe[1].outcome = Returned
    /\ Len(probe[1].attempts) = 2
    /\ probe[1].attempts[2].cipher_list = ALL_CIPHERS
    /\ probe[1].conns = {}

\* C16 as stated: never more than one connection is open at once.
C16_OneAtATime == \A c \in Ctx : Cardinality(probe[c].conns) <= 1

\* C16: never more than two connections are open at once; two are open only
\* as the default and the exhaustive connection of one version; and when the
\* first connection of a version is about to be created none is open.
C16_ScopedPerVersion ==
    \A c \in Ctx :
        /\ Cardinality(probe[c].conns) <= 2
        /\ probe[c].pc = "open_default" => probe[c].conns = {}
        /\ \A k \in probe[c].conns :
            /\ k.name # "pre" => k.ssl_version = VERSIONS[probe[c].i]
            /\ k.name = "all_ciphers" => \E d \in probe[c].conns : d.name = "default"
            /\ k.name = "pre" => probe[c].conns = {k}

\* During the exhaustive attempt of the second version, two connections.
C16_Witness ==
    /\ probe[1].pc = "connect_all" /\ probe[1].i = 2
    /\ Cardinality(probe[1].conns) = 2

\* do_pre_handshake() raised.
ReachabilityFailed(p) == p.pre \notin {NoException, PreHandshakeOk}

\* C17: a handshake attempt is made only after do_pre_handshake() returned;
\* after it raised the call is over with no attempt made and no connection
\* open, and the first connection exists only until do_pre_handshake() ended.
C17_ReachabilityFailureTerminal ==
    \A c \in Ctx :
        /\ probe[c].attempts # <<>> => probe[c].pre = PreHandshakeOk
        /\ (\E k \in probe[c].conns : k.name # "pre") => probe[c].pre = PreHandshakeOk
        /\ (\E k \in probe[c].conns : k.name = "pre")
            => probe[c].pc = "pre_handshake" /\ probe[c].pre = NoException
        /\ ReachabilityFailed(probe[c])
            => /\ probe[c].pc = "done"
               /\ probe[c].attempts = <<>>
               /\ probe[c].conns = {}
               /\ probe[c].outcome # Returned

C17_Witness ==
    /\ probe[1].pc = "done"
    /\ probe[1].pre = [type |-> "socket.timeout", args |-> <<>>]
    /\ probe[1].attempts = <<>>
    /\ probe[1].outcome = ServerConnectivityError(CONNECTIVITY_ERROR_TIMEOUT)

\* C18: the handshake error is raised only after all eight attempts were
\* made, also when an attempt completed and reported no cipher name.
C18_ErrorOnlyAfterEight ==
    \A c \in Ctx :
        (/\ probe[c].pc = "done"
         /\ probe[c].outcome = ServerConnectivityError(CONNECTIVITY_ERROR_HANDSHAKE_ERROR))
        => Len(probe[c].attempts) = 8

\* C19: every handshake connection is made to the peer address observed on
\* the socket of the reachability connection.
C19_AttemptsUsePeerAddress ==
    \A c \in Ctx : \A k \in probe[c].conns :
        k.name # "pre" => k.ip = getpeername(info[probe[c].self].ip_address)

\* C20: no step changes the hostname, ip_address or port of any record, and
\* a record changes at all only by line 260 or line 261 of a probe running
\* on that very record.
C20_Frame ==
    [][\A r \in Recs :
          /\ info'[r].hostname = info[r].hostname
          /\ info'[r].ip_address = info[r].ip_address
          /\ info'[r].port = info[r].port
          /\ info'[r] # info[r]
              => \E c \in Ctx : /\ probe[c].self = r
                                /\ probe[c].pc \in {"store_version", "store_cipher"}]_vars

\* A probe of the first record returned: that record holds the negotiated
\* pair, the other record is as constructed.
C20_Witness ==
    /\ probe[1].pc = "done" /\ probe[1].self = 1 /\ probe[1].outcome = Returned
    /\ info[1].ssl_cipher_supported \in Ciphers
    /\ info[1].hostname = 1 /\ info[1].ip_address = 1 /\ info[1].port = 443
    /\ info[2] = NewInfo(2)

\* ------------------------------------------------------ ownership claim
\* The job's call of test_connectivity_to_server is under way.
Running(p) == p.pc \notin {"idle", "done", "retired"}

\* C21: no two jobs that run at the same time run on the same record, and
\* no record has its negotiated fields written by more than one job (a job
\* writes them exactly when its probe returns).
C21_ExclusiveOwnership ==
    /\ \A c, d \in Ctx :
        (c # d /\ Running(probe[c]) /\ Running(probe[d])) => probe[c].self # probe[d].self
    /\ \A r \in Recs :
        Cardinality({c \in Ctx : probe[c].self = r /\ probe[c].outcome = Returned}) <= 1

\* ------------------------------------------------------- parser claim
\* The server string was parsed and the parser returned.
ParserReturned(c) == c.pc \in {"constructed", "raised"} /\ c.parsed.exc = NoOutcome

\* C22: a forced address written as [::2] is returned as ::2, whether the
\* host part is a hostname or a bracketed IPv6 address, and the host and port
\* of a bracketed IPv6 host part are those of the same string without the
\* forced address: host ::1, and the written port or None.
C22_ForcedIpUnbracketed ==
    \A hp \in HostPortStrings :
        (/\ ParserReturned(cmd)
         /\ cmd.server_string = hp \o <<"{", "[", ":", ":", "2", "]", "}">>)
        => /\ cmd.parsed.ip = Some(<<":", ":", "2">>)
           /\ Contains(hp, "[")
              => /\ cmd.parsed.host = <<":", ":", "1">>
                 /\ cmd.parsed.host = parse_server_string(hp, TRUE).host
                 /\ cmd.parsed.port = parse_server_string(hp, TRUE).port

====
